---- MODULE Spec2Model ----
(***************************************************************************)
(* Weekly 1-1 matching engine of causebot (cogs/one_on_ones.py and the     *)
(* 1-1 section of db/actions.py), for one guild.                           *)
(*                                                                         *)
(* Time is counted in half days; half day 0 is the morning of a Monday.    *)
(* Every coroutine of the cog is a process in a slot of `inflight`; each   *)
(* action is the code between two awaits that touch the store or the       *)
(* messaging platform.  Under Spec a handler runs to completion before the *)
(* next one starts; under the concurrent specifications handlers           *)
(* interleave at their awaits.                                             *)
(***************************************************************************)
EXTENDS Integers, Sequences, FiniteSets, TLC

(* ------------------------------ bounds --------------------------------- *)

\* members of the guild that take part in the model
NumUsers == 4
\* handlers and commands started in one behaviour
MaxOps == 2
\* half days the clock advances in one behaviour
MaxTicks == 1

(* ----------------------------- constants ------------------------------- *)

NULL == -1
BotId == 0
Users == 1..NumUsers
Slots == {1, 2}

HalfDaysPerDay == 2
HalfDaysPerWeek == 7 * HalfDaysPerDay
\* the clock at Init: the afternoon of Saturday (weekday 5) of week 5, so that
\* the next half day is the Sunday morning of the scheduled run
StartTime == (5 * 7 + 5) * HalfDaysPerDay + 1
\* the afternoon of the Sunday that follows: the last half day of week 5
WeekEnd == StartTime + HalfDaysPerDay
\* the Tuesday morning that follows
ReminderTime == WeekEnd + 3
\* timedelta(weeks=4) of _run_matching_for_guild
SitOutWindowWeeks == 4
\* max_reminders=2 of send_reminders
max_reminders == 2
\* weeks offered to /1-1s skip in the model (the command takes 1..8)
SkipWeeks == {1, 2}

VARIABLES
    now,        \* datetime.now(timezone.utc), in half days
    pool,       \* table one_on_one_pool: user -> row or NoRow
    matches,    \* table one_on_one_matches: sequence of rows, id = index
    channel,    \* whether the guild has a text channel named "1-1s"
    inflight,   \* slot -> the coroutine running there, or Idle
    sent,       \* per thread: messages posted by the handlers after creation
    dms,        \* per user: direct messages delivered
    reply,      \* the last pool command, its user and what it returned
    lastRun,    \* outcome of the last pairing run that returned
    ops,        \* handlers and commands started so far
    fired       \* whether the scheduled triggers fired in this half day

vars == <<now, pool, matches, channel, inflight, sent, dms, reply, lastRun, ops, fired>>

(* ------------------------------- time ---------------------------------- *)

\* datetime.date(): the day number of a timestamp
DateOf(t) == t \div HalfDaysPerDay

\* date.weekday(): Monday is 0
Weekday(d) == d % 7

\* datetime.hour == 10 holds in the morning half of a day
IsMorning(t) == t % HalfDaysPerDay = 0

\* get_week_start(): the Monday of the current week, as a date
get_week_start(t) == DateOf(t) - Weekday(DateOf(t))

\* `skip_until <= week_start` compares the strings "YYYY-MM-DDTHH:MM:SS..+00:00"
\* (skip_until, written by /1-1s skip) and "YYYY-MM-DD" (week_start): on equal
\* dates the longer string is the greater one, so the test is a strict
\* comparison of the dates.
IsoDatetimeLeDate_mut_dates(ts, d) == DateOf(ts) <= d

IsoDatetimeLeDate(ts, d) == DateOf(ts) < d

\* `sat_out_at >= since` compares utcnow().isoformat() (no offset) with
\* now(utc).isoformat() (ending "+00:00"): at equal instants the string
\* without offset is a proper prefix of the other, hence smaller.
IsoNaiveGeAware(t1, t2) == t1 > t2

(* ------------------------------- rows ---------------------------------- *)

NoRow == [present |-> FALSE]

PoolRow(j, s, o) ==
    [present |-> TRUE, joined_at |-> j, skip_until |-> s, sat_out_at |-> o]

\* server defaults of one_on_one_matches
MatchRow(id, ws, u1, u2, th) ==
    [id |-> id, week_start |-> ws, user1_id |-> u1, user2_id |-> u2,
     thread_id |-> th, user1_status |-> "pending", user2_status |-> "pending",
     reminder_count |-> 0, completed_at |-> NULL]

NoPosts == [complete |-> 0, decline |-> 0, remind |-> 0, reminded_on |-> NULL]

Idle == [kind |-> "idle"]

\* the None a lookup returns when no row matches
NoMatch == [id |-> NULL]

NoRun == [week |-> NULL, full |-> FALSE]

\* no pool command has run yet
NoReply == [command |-> "none", user_id |-> NULL, result |-> FALSE]

MatchIds == 1..Len(matches)

(* ---------------------------- db/actions.py ---------------------------- *)

get_available_pool_members_mut_all(week_start) ==
    {u \in Users : pool[u].present}

get_available_pool_members(week_start) ==
    {u \in Users :
        /\ pool[u].present
        /\ \/ pool[u].skip_until = NULL
           \/ IsoDatetimeLeDate(pool[u].skip_until, week_start)}

get_users_who_sat_out_recently(since) ==
    {u \in Users :
        /\ pool[u].present
        /\ pool[u].sat_out_at # NULL
        /\ IsoNaiveGeAware(pool[u].sat_out_at, since)}

get_users_matched_this_week_mut_open(week_start) ==
    UNION {{matches[k].user1_id, matches[k].user2_id} :
              k \in {j \in MatchIds : /\ matches[j].week_start = week_start
                                      /\ matches[j].completed_at = NULL}}

get_users_matched_this_week(week_start) ==
    UNION {{matches[k].user1_id, matches[k].user2_id} :
              k \in {j \in MatchIds : matches[j].week_start = week_start}}

get_user_partners_this_week(user_id, week_start) ==
    {IF matches[k].user1_id = user_id THEN matches[k].user2_id ELSE matches[k].user1_id :
        k \in {j \in MatchIds : /\ matches[j].week_start = week_start
                                /\ user_id \in {matches[j].user1_id, matches[j].user2_id}}}

\* fetch_one: the first row with that thread id, or None
get_match_by_thread(thread_id) ==
    LET hits == {k \in MatchIds : matches[k].thread_id = thread_id}
    IN  IF hits = {} THEN NoMatch
        ELSE matches[CHOOSE k \in hits : \A j \in hits : k <= j]

get_match_by_id(match_id) == matches[match_id]

mark_user_sat_out_mut_nothing(p, user_id) == p

\* UPDATE ... SET sat_out_at = now WHERE user_id = ...: no row, no change
mark_user_sat_out(p, user_id) ==
    IF p[user_id].present
    THEN [p EXCEPT ![user_id].sat_out_at = now]
    ELSE p

create_one_on_one_match(ms, week_start, user1_id, user2_id, thread_id) ==
    Append(ms, MatchRow(Len(ms) + 1, week_start, user1_id, user2_id, thread_id))

update_match_status_mut_row(ms, match_id, user_id, status) ==
    IF ms[match_id].user1_id = user_id
    THEN [ms EXCEPT ![match_id].user1_status = status, ![match_id].user2_status = "pending"]
    ELSE IF ms[match_id].user2_id = user_id
         THEN [ms EXCEPT ![match_id].user2_status = status, ![match_id].user1_status = "pending"]
         ELSE ms

\* the UPDATE sets only the column of the side that user_id is on
update_match_status(ms, match_id, user_id, status) ==
    IF ms[match_id].user1_id = user_id
    THEN [ms EXCEPT ![match_id].user1_status = status]
    ELSE IF ms[match_id].user2_id = user_id
         THEN [ms EXCEPT ![match_id].user2_status = status]
         ELSE ms

complete_match_mut_unless_confirmed(ms, match_id) ==
    IF "confirmed" \in {ms[match_id].user1_status, ms[match_id].user2_status}
       /\ "declined" \in {ms[match_id].user1_status, ms[match_id].user2_status}
    THEN ms
    ELSE [ms EXCEPT ![match_id].completed_at = now]

complete_match(ms, match_id) ==
    [ms EXCEPT ![match_id].completed_at = now]

increment_match_reminder_mut_lost(ms, match_id, reminder_count) ==
    [ms EXCEPT ![match_id].reminder_count = reminder_count]

increment_match_reminder_mut_twice(ms, match_id, reminder_count) ==
    [ms EXCEPT ![match_id].reminder_count = reminder_count + 2]

\* the UPDATE of increment_match_reminder: `reminder_count` is the value its
\* get_match_by_id read one await earlier
increment_match_reminder(ms, match_id, reminder_count) ==
    [ms EXCEPT ![match_id].reminder_count = reminder_count + 1]

get_matches_needing_reminder_mut_nocap(week_start, cap) ==
    SelectSeq(matches, LAMBDA row :
        /\ row.week_start = week_start
        /\ row.completed_at = NULL
        /\ (row.user1_status = "pending" \/ row.user2_status = "pending"))

get_matches_needing_reminder_mut_done(week_start, cap) ==
    SelectSeq(matches, LAMBDA row :
        /\ row.week_start = week_start
        /\ row.reminder_count < cap
        /\ (row.user1_status = "pending" \/ row.user2_status = "pending"))

\* the rows of the week that are open, below the reminder limit and have a
\* pending side, as dicts; the query has no ORDER BY, the rows come in id order
get_matches_needing_reminder(week_start, cap) ==
    SelectSeq(matches, LAMBDA row :
        /\ row.week_start = week_start
        /\ row.completed_at = NULL
        /\ row.reminder_count < cap
        /\ (row.user1_status = "pending" \/ row.user2_status = "pending"))


(* -------------------------------- Init --------------------------------- *)

\* states of a pool row the store can hold when the process starts: no row,
\* a plain member, a member who sat out one week ago, a member who sat out
\* five weeks ago, a member who skips the coming two weeks
InitRowKinds ==
    <<NoRow,
      PoolRow(0, NULL, NULL),
      PoolRow(0, NULL, StartTime - HalfDaysPerWeek),
      PoolRow(0, NULL, StartTime - 5 * HalfDaysPerWeek),
      PoolRow(0, StartTime + 2 * HalfDaysPerWeek, NULL)>>

\* the rows of a behaviour that needs no sit-out history: no row, a plain
\* member, a member who skips
PlainRowKinds == <<InitRowKinds[1], InitRowKinds[2], InitRowKinds[5]>>

\* a store with an empty match table; user ids are interchangeable, so the
\* rows are listed in one order only
InitStore(rows) ==
    /\ now = StartTime
    /\ \E f \in [Users -> 1..Len(rows)] :
          /\ \A u, v \in Users : u < v => f[u] >= f[v]
          /\ pool = [u \in Users |-> rows[f[u]]]
    /\ matches = <<>>
    /\ channel \in BOOLEAN
    /\ inflight = [s \in Slots |-> Idle]
    /\ sent = <<>>
    /\ dms = [u \in Users |-> 0]
    /\ reply = NoReply
    /\ lastRun = NoRun
    /\ ops = 0
    /\ fired = {}

Init == InitStore(InitRowKinds)

(* --------------------------- process slots ----------------------------- *)

\* a coroutine starts in the lowest free slot; `lim` is the number of
\* coroutines that may be in flight together
CanStart(s, lim) ==
    /\ s <= lim
    /\ inflight[s] = Idle
    /\ \A t \in Slots : t < s => inflight[t] # Idle
    /\ ops < MaxOps

At(s, kind, pc) ==
    /\ inflight[s].kind = kind
    /\ inflight[s].pc = pc

AllIdle == \A s \in Slots : inflight[s] = Idle

(* ------------------- OneOnOnes._run_matching_for_guild ----------------- *)

Shuffles(S) ==
    {f \in [1..Cardinality(S) -> S] : \A a, b \in 1..Cardinality(S) : a # b => f[a] # f[b]}

pairs_of_mut_overlap(available) ==
    [k \in 1..(Len(available) - 1) |-> <<available[k], available[k + 1]>>]

\* [(available[i], available[i + 1]) for i in range(0, len(available), 2)];
\* len(available) is even where the code builds the list
pairs_of(available) ==
    [k \in 1..(Len(available) \div 2) |-> <<available[2 * k - 1], available[2 * k]>>]

sit_out_choices_mut_anyone(available, recently_sat_out) == available

\* the list random.choice draws the sit-out from
sit_out_choices(available, recently_sat_out) ==
    LET candidates == available \ recently_sat_out
    IN  IF candidates # {} THEN candidates ELSE available

filter_matched_mut_keep(available, already_matched) == available

\* available = [u for u in available if u not in already_matched]
filter_matched(available, already_matched) == available \ already_matched

\* lines 166-173: week key, eligible members, first early return
run_begin(s, lim, trigger) ==
    /\ CanStart(s, lim)
    /\ LET ws == get_week_start(now)
           av == get_available_pool_members(ws)
       IN  inflight' = [inflight EXCEPT ![s] =
               [kind |-> "run", pc |-> IF Cardinality(av) < 2 THEN "done" ELSE "filter",
                trigger |-> trigger, week_start |-> ws, available |-> av,
                already_matched |-> {}, sit_out_user |-> NULL, pairs |-> <<>>,
                i |-> 1, matches_created |-> 0, result |-> 0, raised |-> FALSE,
                n |-> Cardinality(av \ get_users_matched_this_week(ws)),
                failures |-> 0, failed |-> {}, no_channel |-> FALSE,
                pool0 |-> pool, matches0 |-> matches,
                rerun |-> (lastRun.full /\ lastRun.week = ws)]]
    /\ ops' = ops + 1

\* the admin command /1-1s run_matching
run_matching(s, lim) ==
    /\ run_begin(s, lim, "command")
    /\ UNCHANGED <<now, pool, matches, channel, sent, dms, reply, lastRun, fired>>

\* the hourly loop: its body runs in the one iteration of Sunday 10:xx UTC
weekly_matching(s, lim) ==
    /\ Weekday(DateOf(now)) = 6
    /\ IsMorning(now)
    /\ "weekly_matching" \notin fired
    /\ run_begin(s, lim, "schedule")
    /\ fired' = fired \cup {"weekly_matching"}
    /\ UNCHANGED <<now, pool, matches, channel, sent, dms, reply, lastRun>>

run_filter_mut_threshold(s) ==
    /\ At(s, "run", "filter")
    /\ LET p == inflight[s]
           am == get_users_matched_this_week(p.week_start)
           av == filter_matched(p.available, am)
       IN  inflight' = [inflight EXCEPT ![s] =
               [p EXCEPT !.already_matched = am, !.available = av,
                         !.n = Cardinality(av),
                         !.pc = IF Cardinality(av) < 1 THEN "done"
                                ELSE IF Cardinality(av) % 2 = 1 THEN "sitout"
                                ELSE "shuffle"]]
    /\ UNCHANGED <<now, pool, matches, channel, sent, dms, reply, lastRun, ops, fired>>

\* lines 175-184: subtract the members matched this week, second early return
run_filter(s) ==
    /\ At(s, "run", "filter")
    /\ LET p == inflight[s]
           am == get_users_matched_this_week(p.week_start)
           av == filter_matched(p.available, am)
       IN  inflight' = [inflight EXCEPT ![s] =
               [p EXCEPT !.already_matched = am, !.available = av,
                         !.n = Cardinality(av),
                         !.pc = IF Cardinality(av) < 2 THEN "done"
                                ELSE IF Cardinality(av) % 2 = 1 THEN "sitout"
                                ELSE "shuffle"]]
    /\ UNCHANGED <<now, pool, matches, channel, sent, dms, reply, lastRun, ops, fired>>

\* lines 185-196: pick the member who sits out
run_sitout(s) ==
    /\ At(s, "run", "sitout")
    /\ LET p == inflight[s]
           four_weeks_ago == now - SitOutWindowWeeks * HalfDaysPerWeek
           recently_sat_out == get_users_who_sat_out_recently(four_weeks_ago)
       IN  \E u \in sit_out_choices(p.available, recently_sat_out) :
               inflight' = [inflight EXCEPT ![s] =
                   [p EXCEPT !.sit_out_user = u, !.available = p.available \ {u},
                             !.pc = "mark"]]
    /\ UNCHANGED <<now, pool, matches, channel, sent, dms, reply, lastRun, ops, fired>>

\* line 197
run_mark(s) ==
    /\ At(s, "run", "mark")
    /\ pool' = mark_user_sat_out(pool, inflight[s].sit_out_user)
    /\ inflight' = [inflight EXCEPT ![s].pc = "shuffle"]
    /\ UNCHANGED <<now, matches, channel, sent, dms, reply, lastRun, ops, fired>>

\* lines 199-207: shuffle, chunk into pairs, look the channel up
run_shuffle(s) ==
    /\ At(s, "run", "shuffle")
    /\ LET p == inflight[s]
       IN  \E order \in Shuffles(p.available) :
               inflight' = [inflight EXCEPT ![s] =
                   [p EXCEPT !.pairs = pairs_of(order),
                             !.no_channel = ~channel,
                             !.pc = IF channel THEN "loop" ELSE "done"]]
    /\ UNCHANGED <<now, pool, matches, channel, sent, dms, reply, lastRun, ops, fired>>

run_pair_mut_row_on_failure(s) ==
    /\ At(s, "run", "loop")
    /\ LET p == inflight[s]
           pair == p.pairs[p.i]
           last == p.i = Len(p.pairs)
       IN  \E outcome \in {"ok", "adapter_error"} :
               /\ matches' = create_one_on_one_match(matches, p.week_start, pair[1], pair[2],
                                                     IF outcome = "ok" THEN Len(matches) + 1
                                                     ELSE NULL)
               /\ sent' = Append(sent, NoPosts)
               /\ inflight' = [inflight EXCEPT ![s] =
                      [p EXCEPT !.matches_created = p.matches_created + 1,
                                !.result = p.matches_created + 1,
                                !.failures = IF outcome = "ok" THEN p.failures
                                             ELSE p.failures + 1,
                                !.failed = IF outcome = "ok" THEN p.failed
                                           ELSE p.failed \cup {p.i},
                                !.i = p.i + 1,
                                !.pc = IF last THEN "done" ELSE "loop"]]
    /\ UNCHANGED <<now, pool, channel, dms, reply, lastRun, ops, fired>>

\* lines 210-237, one iteration: thread, instructions, reactions, then the row.
\* "adapter_error" is discord.Forbidden or discord.HTTPException, caught in the
\* loop; "store_error" is an exception of create_one_on_one_match, which the
\* loop does not catch.
run_pair(s) ==
    /\ At(s, "run", "loop")
    /\ LET p == inflight[s]
           pair == p.pairs[p.i]
           last == p.i = Len(p.pairs)
       IN  \/ /\ matches' = create_one_on_one_match(matches, p.week_start, pair[1], pair[2],
                                                    Len(matches) + 1)
              /\ sent' = Append(sent, NoPosts)
              /\ inflight' = [inflight EXCEPT ![s] =
                     [p EXCEPT !.matches_created = p.matches_created + 1,
                               !.result = p.matches_created + 1,
                               !.i = p.i + 1,
                               !.pc = IF last THEN "done" ELSE "loop"]]
           \/ /\ inflight' = [inflight EXCEPT ![s] =
                     [p EXCEPT !.failures = p.failures + 1,
                               !.failed = p.failed \cup {p.i},
                               !.result = p.matches_created,
                               !.i = p.i + 1,
                               !.pc = IF last THEN "done" ELSE "loop"]]
              /\ UNCHANGED <<matches, sent>>
           \/ /\ inflight' = [inflight EXCEPT ![s] =
                     [p EXCEPT !.failures = p.failures + 1,
                               !.failed = p.failed \cup {p.i},
                               !.raised = TRUE,
                               !.pc = "done"]]
              /\ UNCHANGED <<matches, sent>>
    /\ UNCHANGED <<now, pool, channel, dms, reply, lastRun, ops, fired>>

\* the coroutine returns (or its exception reaches the caller)
run_return(s) ==
    /\ At(s, "run", "done")
    /\ LET p == inflight[s]
       IN  lastRun' = [week |-> p.week_start,
                       full |-> (~p.raised /\ p.matches_created = Len(p.pairs))]
    /\ inflight' = [inflight EXCEPT ![s] = Idle]
    /\ UNCHANGED <<now, pool, matches, channel, sent, dms, reply, ops, fired>>


(* --------------------- OneOnOnes.on_raw_reaction_add ------------------- *)

\* str(payload.emoji): the two markers of the protocol and any other emoji
Emojis == {"white_check_mark", "x", "other"}

SendOutcomes == {"ok", "error"}

partner_of_mut_self(match, user_id) == user_id

\* partner_id = match["user2_id"] if payload.user_id == match["user1_id"] else match["user1_id"]
partner_of(match, user_id) ==
    IF user_id = match.user1_id THEN match.user2_id ELSE match.user1_id

dispatch_mut_any_member(user_id, emoji, match) ==
    IF \/ user_id = BotId
       \/ emoji \notin {"white_check_mark", "x"}
       \/ match.id = NULL
    THEN "done"
    ELSE IF emoji = "white_check_mark" THEN "confirm_update" ELSE "decline_update"

\* lines 315-331: the four early returns, then the handler the emoji selects
dispatch(user_id, emoji, match) ==
    IF \/ user_id = BotId
       \/ emoji \notin {"white_check_mark", "x"}
       \/ match.id = NULL
       \/ user_id \notin {match.user1_id, match.user2_id}
    THEN "done"
    ELSE IF emoji = "white_check_mark" THEN "confirm_update" ELSE "decline_update"

\* a reaction one of the four early returns drops leaves a listener of kind
\* "ignored" that only returns; any other reaction starts its handler
on_raw_reaction_add(s, lim, user_id, emoji, channel_id) ==
    /\ CanStart(s, lim)
    /\ LET match == get_match_by_thread(channel_id)
           pc == dispatch(user_id, emoji, match)
       IN  IF pc = "done"
           THEN inflight' = [inflight EXCEPT ![s] =
                    [kind |-> "ignored", pc |-> "done",
                     user_id |-> user_id, emoji |-> emoji, channel_id |-> channel_id,
                     match |-> match, pool0 |-> pool, matches0 |-> matches]]
           ELSE inflight' = [inflight EXCEPT ![s] =
                    [kind |-> "react", pc |-> pc,
                     user_id |-> user_id, emoji |-> emoji, channel_id |-> channel_id,
                     match |-> match, partner_id |-> NULL, week_start |-> NULL,
                     available |-> {}, already_partnered |-> {}, already_matched |-> {},
                     candidates |-> {}, new_partner_id |-> NULL,
                     rematch_for |-> {}, notices |-> 0, created |-> 0,
                     rematch_failed |-> FALSE, m0 |-> Len(matches),
                     dm_tried |-> 0, dm_sent |-> 0,
                     pool1 |-> pool, matches1 |-> matches]]
    /\ ops' = ops + 1
    /\ UNCHANGED <<now, pool, matches, channel, sent, dms, reply, lastRun, fired>>

(* ------------------------ OneOnOnes._handle_confirm -------------------- *)

\* line 335
handle_confirm_update(s) ==
    /\ At(s, "react", "confirm_update")
    /\ LET p == inflight[s]
       IN  matches' = update_match_status(matches, p.match.id, p.user_id, "confirmed")
    /\ inflight' = [inflight EXCEPT ![s].pc = "confirm_read"]
    /\ UNCHANGED <<now, pool, channel, sent, dms, reply, lastRun, ops, fired>>

\* lines 338-339
handle_confirm_read(s) ==
    /\ At(s, "react", "confirm_read")
    /\ LET p == inflight[s]
           updated_match == get_match_by_id(p.match.id)
       IN  inflight' = [inflight EXCEPT ![s].pc =
               IF /\ updated_match.user1_status = "confirmed"
                  /\ updated_match.user2_status = "confirmed"
               THEN "confirm_complete" ELSE "done"]
    /\ UNCHANGED <<now, pool, matches, channel, sent, dms, reply, lastRun, ops, fired>>

\* line 340
handle_confirm_complete(s) ==
    /\ At(s, "react", "confirm_complete")
    /\ matches' = complete_match(matches, inflight[s].match.id)
    /\ inflight' = [inflight EXCEPT ![s].pc = "confirm_notice"]
    /\ UNCHANGED <<now, pool, channel, sent, dms, reply, lastRun, ops, fired>>

\* lines 342-347: the completion notice; a failed send is logged
handle_confirm_notice(s) ==
    /\ At(s, "react", "confirm_notice")
    /\ LET p == inflight[s]
       IN  \E outcome \in SendOutcomes :
               IF outcome = "ok"
               THEN /\ sent' = [sent EXCEPT ![p.match.thread_id].complete = @ + 1]
                    /\ inflight' = [inflight EXCEPT ![s] =
                           [p EXCEPT !.pc = "done", !.notices = p.notices + 1]]
               ELSE /\ sent' = sent
                    /\ inflight' = [inflight EXCEPT ![s].pc = "done"]
    /\ UNCHANGED <<now, pool, matches, channel, dms, reply, lastRun, ops, fired>>

(* ------------------------ OneOnOnes._handle_decline -------------------- *)

\* line 351
handle_decline_update(s) ==
    /\ At(s, "react", "decline_update")
    /\ LET p == inflight[s]
       IN  matches' = update_match_status(matches, p.match.id, p.user_id, "declined")
    /\ inflight' = [inflight EXCEPT ![s].pc = "decline_complete"]
    /\ UNCHANGED <<now, pool, channel, sent, dms, reply, lastRun, ops, fired>>

\* lines 352-355
handle_decline_complete(s) ==
    /\ At(s, "react", "decline_complete")
    /\ LET p == inflight[s]
       IN  /\ matches' = complete_match(matches, p.match.id)
           /\ inflight' = [inflight EXCEPT ![s] =
                  [p EXCEPT !.pc = "decline_notice",
                            !.partner_id = partner_of(p.match, p.user_id)]]
    /\ UNCHANGED <<now, pool, channel, sent, dms, reply, lastRun, ops, fired>>

handle_decline_notice_mut_abort(s) ==
    /\ At(s, "react", "decline_notice")
    /\ LET p == inflight[s]
       IN  \E outcome \in SendOutcomes :
               IF outcome = "ok"
               THEN /\ sent' = [sent EXCEPT ![p.match.thread_id].decline = @ + 1]
                    /\ inflight' = [inflight EXCEPT ![s] =
                           [p EXCEPT !.pc = "rematch_available", !.notices = p.notices + 1]]
               ELSE /\ sent' = sent
                    /\ inflight' = [inflight EXCEPT ![s].pc = "done"]
    /\ UNCHANGED <<now, pool, matches, channel, dms, reply, lastRun, ops, fired>>

\* lines 357-364: the decline notice; a failed send is logged
handle_decline_notice(s) ==
    /\ At(s, "react", "decline_notice")
    /\ LET p == inflight[s]
       IN  \E outcome \in SendOutcomes :
               IF outcome = "ok"
               THEN /\ sent' = [sent EXCEPT ![p.match.thread_id].decline = @ + 1]
                    /\ inflight' = [inflight EXCEPT ![s] =
                           [p EXCEPT !.pc = "rematch_available", !.notices = p.notices + 1]]
               ELSE /\ sent' = sent
                    /\ inflight' = [inflight EXCEPT ![s].pc = "rematch_available"]
    /\ UNCHANGED <<now, pool, matches, channel, dms, reply, lastRun, ops, fired>>

(* ------------------------ OneOnOnes._attempt_rematch ------------------- *)

candidates_of_mut_self(available, user_id, already_partnered, already_matched) ==
    {u \in available : u \notin already_partnered /\ u \notin already_matched}

\* lines 381-384
candidates_of(available, user_id, already_partnered, already_matched) ==
    {u \in available : u # user_id /\ u \notin already_partnered /\ u \notin already_matched}

\* lines 367-374: called for the partner; week key and eligible members
attempt_rematch_available(s) ==
    /\ At(s, "react", "rematch_available")
    /\ LET p == inflight[s]
           ws == get_week_start(now)
       IN  inflight' = [inflight EXCEPT ![s] =
               [p EXCEPT !.pc = "rematch_partners",
                         !.rematch_for = p.rematch_for \cup {p.partner_id},
                         !.week_start = ws,
                         !.available = get_available_pool_members(ws),
                         !.pool1 = pool, !.matches1 = matches]]
    /\ UNCHANGED <<now, pool, matches, channel, sent, dms, reply, lastRun, ops, fired>>

\* line 377
attempt_rematch_partners(s) ==
    /\ At(s, "react", "rematch_partners")
    /\ LET p == inflight[s]
       IN  inflight' = [inflight EXCEPT ![s] =
               [p EXCEPT !.pc = "rematch_matched",
                         !.already_partnered =
                             get_user_partners_this_week(p.partner_id, p.week_start)]]
    /\ UNCHANGED <<now, pool, matches, channel, sent, dms, reply, lastRun, ops, fired>>

\* lines 378-407: candidates; none -> DM; else pick one and look the channel up
attempt_rematch_matched(s) ==
    /\ At(s, "react", "rematch_matched")
    /\ LET p == inflight[s]
           am == get_users_matched_this_week(p.week_start)
           cs == candidates_of(p.available, p.partner_id, p.already_partnered, am)
       IN  IF cs = {}
           THEN inflight' = [inflight EXCEPT ![s] =
                    [p EXCEPT !.pc = "rematch_dm", !.already_matched = am]]
           ELSE \E c \in cs :
                    inflight' = [inflight EXCEPT ![s] =
                        [p EXCEPT !.pc = IF channel THEN "rematch_create" ELSE "done",
                                  !.rematch_failed = ~channel,
                                  !.already_matched = am, !.candidates = cs,
                                  !.new_partner_id = c]]
    /\ UNCHANGED <<now, pool, matches, channel, sent, dms, reply, lastRun, ops, fired>>

attempt_rematch_dm_mut_raise(s) ==
    /\ At(s, "react", "rematch_dm")
    /\ LET p == inflight[s]
       IN  \E outcome \in SendOutcomes :
               IF outcome = "ok"
               THEN /\ dms' = [dms EXCEPT ![p.partner_id] = @ + 1]
                    /\ inflight' = [inflight EXCEPT ![s] =
                           [p EXCEPT !.pc = "done", !.dm_tried = p.dm_tried + 1,
                                     !.dm_sent = p.dm_sent + 1]]
               ELSE /\ dms' = dms
                    /\ inflight' = [inflight EXCEPT ![s] =
                           [p EXCEPT !.pc = "raised", !.dm_tried = p.dm_tried + 1]]
    /\ UNCHANGED <<now, pool, matches, channel, sent, reply, lastRun, ops, fired>>

\* lines 387-396: fetch_user and user.send, once; a failure is logged and
\* the coroutine returns as it does after a delivered message
attempt_rematch_dm(s) ==
    /\ At(s, "react", "rematch_dm")
    /\ LET p == inflight[s]
       IN  \E outcome \in SendOutcomes :
               IF outcome = "ok"
               THEN /\ dms' = [dms EXCEPT ![p.partner_id] = @ + 1]
                    /\ inflight' = [inflight EXCEPT ![s] =
                           [p EXCEPT !.pc = "done", !.dm_tried = p.dm_tried + 1,
                                     !.dm_sent = p.dm_sent + 1]]
               ELSE /\ dms' = dms
                    /\ inflight' = [inflight EXCEPT ![s] =
                           [p EXCEPT !.pc = "done", !.dm_tried = p.dm_tried + 1]]
    /\ UNCHANGED <<now, pool, matches, channel, sent, reply, lastRun, ops, fired>>

\* lines 409-432: thread, instructions, reactions, then the row; any exception
\* is caught and logged
attempt_rematch_create(s) ==
    /\ At(s, "react", "rematch_create")
    /\ LET p == inflight[s]
       IN  \E outcome \in SendOutcomes :
               IF outcome = "ok"
               THEN /\ matches' = create_one_on_one_match(matches, p.week_start, p.partner_id,
                                                          p.new_partner_id, Len(matches) + 1)
                    /\ sent' = Append(sent, NoPosts)
                    /\ inflight' = [inflight EXCEPT ![s] =
                           [p EXCEPT !.pc = "done", !.created = Len(matches) + 1]]
               ELSE /\ UNCHANGED <<matches, sent>>
                    /\ inflight' = [inflight EXCEPT ![s] =
                           [p EXCEPT !.pc = "done", !.rematch_failed = TRUE]]
    /\ UNCHANGED <<now, pool, channel, dms, reply, lastRun, ops, fired>>

\* the listener returns
react_return(s) ==
    /\ At(s, "react", "done") \/ At(s, "ignored", "done")
    /\ inflight' = [inflight EXCEPT ![s] = Idle]
    /\ UNCHANGED <<now, pool, matches, channel, sent, dms, reply, lastRun, ops, fired>>

(* ------------- OneOnOnes.send_reminders, OneOnOnes._send_reminder ------- *)

\* get_thread / fetch_channel and thread.send: the post is made, the thread
\* is gone (discord.NotFound), or the post is refused or fails
ReminderOutcomes == {"ok", "not_found", "error"}

\* the mentions of the sides that are pending in the selected dict
pending_users(match) ==
    {u \in {match.user1_id, match.user2_id} :
        (IF u = match.user1_id THEN match.user1_status ELSE match.user2_status) = "pending"}

\* the for loop moves to the next selected match
scan_next(p) ==
    [p EXCEPT !.i = p.i + 1,
              !.pc = IF p.i = Len(p.selected) THEN "done" ELSE "send"]

\* lines 259-267: an iteration of the 12-hour loop on a Tuesday or a Thursday;
\* the iterations of one loop run one after another
send_reminders(s, lim) ==
    /\ CanStart(s, lim)
    /\ Weekday(DateOf(now)) \in {1, 3}
    /\ "send_reminders" \notin fired
    /\ \A t \in Slots : inflight[t].kind # "scan"
    /\ inflight' = [inflight EXCEPT ![s] =
           [kind |-> "scan", pc |-> "select", week_start |-> get_week_start(now),
            selected |-> <<>>, i |-> 1, reminder_count |-> NULL,
            posted |-> {}, skipped |-> {}, mentions |-> {}, pending_then |-> {},
            matches0 |-> matches]]
    /\ ops' = ops + 1
    /\ fired' = fired \cup {"send_reminders"}
    /\ UNCHANGED <<now, pool, matches, channel, sent, dms, reply, lastRun>>

\* line 271
scan_select(s) ==
    /\ At(s, "scan", "select")
    /\ LET p == inflight[s]
           selected == get_matches_needing_reminder(p.week_start, max_reminders)
       IN  inflight' = [inflight EXCEPT ![s] =
               [p EXCEPT !.selected = selected, !.matches0 = matches,
                         !.pc = IF selected = <<>> THEN "done" ELSE "send"]]
    /\ UNCHANGED <<now, pool, matches, channel, sent, dms, reply, lastRun, ops, fired>>

\* lines 283-302 and 305-310 for one selected match: no thread id, or nobody
\* pending in the dict, returns; a thread that is gone or a failed post is
\* logged; a post that was made is followed by the increment. `mentions` are
\* the users the post names, `pending_then` the sides pending in the table
\* when it is made
scan_send(s) ==
    /\ At(s, "scan", "send")
    /\ LET p == inflight[s]
           match == p.selected[p.i]
       IN  IF match.thread_id = NULL \/ pending_users(match) = {}
           THEN /\ inflight' = [inflight EXCEPT ![s] =
                       scan_next([p EXCEPT !.skipped = p.skipped \cup {p.i}])]
                /\ sent' = sent
           ELSE \E outcome \in ReminderOutcomes :
                    IF outcome = "ok"
                    THEN /\ sent' = [sent EXCEPT ![match.thread_id].remind = @ + 1,
                                                 ![match.thread_id].reminded_on = DateOf(now)]
                         /\ inflight' = [inflight EXCEPT ![s] =
                                [p EXCEPT !.posted = p.posted \cup {p.i},
                                          !.mentions = pending_users(match),
                                          !.pending_then =
                                              pending_users(get_match_by_id(match.id)),
                                          !.pc = "increment_read"]]
                    ELSE /\ sent' = sent
                         /\ inflight' = [inflight EXCEPT ![s] =
                                scan_next([p EXCEPT !.skipped = p.skipped \cup {p.i}])]
    /\ UNCHANGED <<now, pool, matches, channel, dms, reply, lastRun, ops, fired>>

\* increment_match_reminder, its get_match_by_id
scan_increment_read(s) ==
    /\ At(s, "scan", "increment_read")
    /\ LET p == inflight[s]
       IN  inflight' = [inflight EXCEPT ![s] =
               [p EXCEPT !.reminder_count = get_match_by_id(p.selected[p.i].id).reminder_count,
                         !.pc = "increment_write"]]
    /\ UNCHANGED <<now, pool, matches, channel, sent, dms, reply, lastRun, ops, fired>>

\* increment_match_reminder, its UPDATE
scan_increment_write(s) ==
    /\ At(s, "scan", "increment_write")
    /\ LET p == inflight[s]
       IN  /\ matches' = increment_match_reminder(matches, p.selected[p.i].id, p.reminder_count)
           /\ inflight' = [inflight EXCEPT ![s] = scan_next(p)]
    /\ UNCHANGED <<now, pool, channel, sent, dms, reply, lastRun, ops, fired>>

\* the iteration ends
scan_return(s) ==
    /\ At(s, "scan", "done")
    /\ inflight' = [inflight EXCEPT ![s] = Idle]
    /\ UNCHANGED <<now, pool, matches, channel, sent, dms, reply, lastRun, ops, fired>>

(* ------------------------- /1-1s join, leave, skip --------------------- *)

join_mut_upsert(user_id) ==
    /\ ops < MaxOps
    /\ AllIdle
    /\ reply' = [command |-> "join", user_id |-> user_id, result |-> ~pool[user_id].present]
    /\ pool' = [pool EXCEPT ![user_id] = PoolRow(now, NULL, NULL)]
    /\ lastRun' = NoRun
    /\ ops' = ops + 1
    /\ UNCHANGED <<now, matches, channel, inflight, sent, dms, fired>>

\* /1-1s join, join_one_on_one_pool: False if the row exists, else insert it
\* (joined_at is the server default, the other columns are NULL)
join(user_id) ==
    /\ ops < MaxOps
    /\ AllIdle
    /\ IF pool[user_id].present
       THEN /\ reply' = [command |-> "join", user_id |-> user_id, result |-> FALSE]
            /\ UNCHANGED <<pool, lastRun>>
       ELSE /\ reply' = [command |-> "join", user_id |-> user_id, result |-> TRUE]
            /\ pool' = [pool EXCEPT ![user_id] = PoolRow(now, NULL, NULL)]
            /\ lastRun' = NoRun
    /\ ops' = ops + 1
    /\ UNCHANGED <<now, matches, channel, inflight, sent, dms, fired>>

\* /1-1s leave, leave_one_on_one_pool: False if there is no row, else delete it
leave(user_id) ==
    /\ ops < MaxOps
    /\ AllIdle
    /\ IF pool[user_id].present
       THEN /\ reply' = [command |-> "leave", user_id |-> user_id, result |-> TRUE]
            /\ pool' = [pool EXCEPT ![user_id] = NoRow]
            /\ lastRun' = NoRun
       ELSE /\ reply' = [command |-> "leave", user_id |-> user_id, result |-> FALSE]
            /\ UNCHANGED <<pool, lastRun>>
    /\ ops' = ops + 1
    /\ UNCHANGED <<now, matches, channel, inflight, sent, dms, fired>>

\* /1-1s skip: members only; skip_until = now + timedelta(weeks=weeks); the
\* reply tells whether the skip was set
skip(user_id, weeks) ==
    /\ ops < MaxOps
    /\ AllIdle
    /\ IF pool[user_id].present
       THEN /\ pool' = [pool EXCEPT ![user_id].skip_until = now + weeks * HalfDaysPerWeek]
            /\ lastRun' = NoRun
       ELSE UNCHANGED <<pool, lastRun>>
    /\ reply' = [command |-> "skip", user_id |-> user_id, result |-> pool[user_id].present]
    /\ ops' = ops + 1
    /\ UNCHANGED <<now, matches, channel, inflight, sent, dms, fired>>

(* ------------------------------- clock --------------------------------- *)

\* half a day passes; `sequential` keeps the clock still while a handler runs,
\* `start + MaxTicks` is the last half day of the behaviour
Tick(sequential, start) ==
    /\ now < start + MaxTicks
    /\ sequential => AllIdle
    /\ now' = now + 1
    /\ fired' = {}
    /\ UNCHANGED <<pool, matches, channel, inflight, sent, dms, reply, lastRun, ops>>

(* ---------------------------- specifications --------------------------- *)

RunStep(s) ==
    \/ run_filter(s)
    \/ run_sitout(s)
    \/ run_mark(s)
    \/ run_shuffle(s)
    \/ run_pair(s)
    \/ run_return(s)

ReactStep(s) ==
    \/ handle_confirm_update(s)
    \/ handle_confirm_read(s)
    \/ handle_confirm_complete(s)
    \/ handle_confirm_notice(s)
    \/ handle_decline_update(s)
    \/ handle_decline_complete(s)
    \/ handle_decline_notice(s)
    \/ attempt_rematch_available(s)
    \/ attempt_rematch_partners(s)
    \/ attempt_rematch_matched(s)
    \/ attempt_rematch_dm(s)
    \/ attempt_rematch_create(s)
    \/ react_return(s)

StartRun(s, lim) ==
    \/ run_matching(s, lim)
    \/ weekly_matching(s, lim)

\* a reaction of any user or of the bot, with any emoji, in the thread of a
\* match or in a thread that has none
StartReact(s, lim) ==
    /\ CanStart(s, lim)
    /\ \E u \in Users \cup {BotId}, e \in Emojis, th \in 1..(Len(matches) + 1) :
           on_raw_reaction_add(s, lim, u, e, th)

ScanStep(s) ==
    \/ scan_select(s)
    \/ scan_send(s)
    \/ scan_increment_read(s)
    \/ scan_increment_write(s)
    \/ scan_return(s)

Command ==
    \/ \E u \in Users : join(u)
    \/ \E u \in Users : leave(u)
    \/ \E u \in Users, w \in SkipWeeks : skip(u, w)

\* the pairing engine: runs one at a time, each to completion
Next ==
    \/ \E s \in Slots : StartRun(s, 1)
    \/ \E s \in Slots : RunStep(s)
    \/ Tick(TRUE, StartTime)

Spec == Init /\ [][Next]_vars

\* the store on the Sunday afternoon after a weekly run that paired users 1 and
\* 2 in thread 1: both are members, every other user has any row of `rows`,
\* and the match is in one of `states` (user1_status, user2_status, completed_at)
InitPaired(rows, weeks, states) ==
    /\ now = WeekEnd
    /\ \E f \in [Users -> 1..Len(rows)] :
          /\ f[1] = 2 /\ f[2] = 2
          /\ \A u, v \in Users \ {1, 2} : u < v => f[u] >= f[v]
          /\ pool = [u \in Users |-> rows[f[u]]]
    /\ \E st \in states, week_start \in weeks :
          matches = <<[MatchRow(1, week_start, 1, 2, 1)
                          EXCEPT !.user1_status = st[1], !.user2_status = st[2],
                                 !.completed_at = st[3]]>>
    /\ channel \in BOOLEAN
    /\ inflight = [s \in Slots |-> Idle]
    /\ sent = <<NoPosts>>
    /\ dms = [u \in Users |-> 0]
    /\ reply = NoReply
    /\ lastRun = NoRun
    /\ ops = 0
    /\ fired = {}

\* the match of users 1 and 2 is new: both sides pending
InitLifecycle == InitPaired(PlainRowKinds, {get_week_start(WeekEnd)}, {<<"pending", "pending", NULL>>})

\* the match lifecycle: reaction handlers one at a time, each to completion
NextLifecycle ==
    \/ \E s \in Slots : StartReact(s, 1)
    \/ \E s \in Slots : ReactStep(s)
    \/ Tick(TRUE, WeekEnd)

SpecLifecycle == InitLifecycle /\ [][NextLifecycle]_vars

\* user 2 has confirmed the match, user 1 has not reacted yet
InitConfirmed == InitPaired(PlainRowKinds, {get_week_start(WeekEnd)}, {<<"pending", "confirmed", NULL>>})

SpecConfirmed == InitConfirmed /\ [][NextLifecycle]_vars

\* the match of users 1 and 2 belongs to this week or to the week before, and
\* is open, was declined by user 2, or was confirmed by both
InitMatched ==
    InitPaired(InitRowKinds,
               {get_week_start(WeekEnd), get_week_start(WeekEnd) - 7},
               {<<"pending", "pending", NULL>>,
                <<"pending", "declined", WeekEnd>>,
                <<"confirmed", "confirmed", WeekEnd>>})

\* manual pairing runs over a week that already has a match, one at a time
NextRerun ==
    \/ \E s \in Slots : run_matching(s, 1)
    \/ \E s \in Slots : RunStep(s)

SpecRerun == InitMatched /\ [][NextRerun]_vars

\* two pairing runs (the scheduled one and a manual one, or a double fire)
\* interleaved at their awaits
NextConcurrentRuns ==
    \/ \E s \in Slots : StartRun(s, 2)
    \/ \E s \in Slots : RunStep(s)
    \/ Tick(FALSE, StartTime)

SpecConcurrentRuns == InitStore(PlainRowKinds) /\ [][NextConcurrentRuns]_vars

\* rows of members who skip: no row, a plain member, a skip that ended two
\* weeks ago, a skip set on a Monday that ends on the Monday of this week, a
\* skip that ends in two weeks
SkipRowKinds ==
    <<NoRow,
      PoolRow(0, NULL, NULL),
      PoolRow(0, WeekEnd - 2 * HalfDaysPerWeek, NULL),
      PoolRow(0, get_week_start(WeekEnd) * HalfDaysPerDay, NULL),
      PoolRow(0, WeekEnd + 2 * HalfDaysPerWeek, NULL)>>

\* users 1 and 2 are matched for this week or were matched the week before;
\* the other users have any of the rows above
InitPool ==
    InitPaired(SkipRowKinds,
               {get_week_start(WeekEnd), get_week_start(WeekEnd) - 7},
               {<<"pending", "pending", NULL>>})

\* /1-1s skip of one week, manual pairing runs and the reactions of the two
\* participants, one handler at a time
NextPool ==
    \/ \E u \in Users : skip(u, 1)
    \/ \E s \in Slots : run_matching(s, 1)
    \/ \E s \in Slots : RunStep(s)
    \/ \E s \in Slots, u \in {1, 2}, e \in {"white_check_mark", "x"} :
           on_raw_reaction_add(s, 1, u, e, 1)
    \/ \E s \in Slots : ReactStep(s)

SpecPool == InitPool /\ [][NextPool]_vars

\* the pool commands alone, on any pool
NextCommands ==
    \/ Command
    \/ Tick(TRUE, StartTime)

SpecCommands == InitStore(SkipRowKinds) /\ [][NextCommands]_vars

\* two reaction handlers interleaved at their awaits
NextConcurrentReacts ==
    \/ \E s \in Slots : StartReact(s, 2)
    \/ \E s \in Slots : ReactStep(s)
    \/ Tick(FALSE, WeekEnd)

SpecConcurrentReacts == InitLifecycle /\ [][NextConcurrentReacts]_vars

\* the steps of a listener that runs _handle_confirm
ConfirmStep(s) ==
    \/ handle_confirm_update(s)
    \/ handle_confirm_read(s)
    \/ handle_confirm_complete(s)
    \/ handle_confirm_notice(s)
    \/ react_return(s)

\* user_id adds the check mark in the thread of match 1, once
OnConfirm(s, user_id) ==
    /\ \A t \in Slots : inflight[t].kind = "react" => inflight[t].user_id # user_id
    /\ "pending" = (IF user_id = matches[1].user1_id
                    THEN matches[1].user1_status ELSE matches[1].user2_status)
    /\ on_raw_reaction_add(s, 2, user_id, "white_check_mark", 1)

\* both participants of the new match confirm, their listeners interleaved
\* at every await
NextConfirmRace ==
    \/ \E s \in Slots, u \in {1, 2} : OnConfirm(s, u)
    \/ \E s \in Slots : ConfirmStep(s)

SpecConfirmRace == InitLifecycle /\ [][NextConfirmRace]_vars

\* the states of a match row a reminder scan can meet: user1_status,
\* user2_status, completed_at, reminder_count
ReminderRowStates ==
    {<<"pending", "pending", NULL, 0>>,
     <<"pending", "confirmed", NULL, 1>>,
     <<"pending", "pending", NULL, 2>>,
     <<"confirmed", "confirmed", ReminderTime - 1, 1>>,
     <<"declined", "pending", ReminderTime - 1, 0>>}

\* a Tuesday morning; users 1 and 2 are matched in thread 1 for this week,
\* users 3 and 4 in thread 2 for this week or the week before; a thread holds
\* as many reminders as its row counts
InitReminders ==
    /\ now = ReminderTime
    /\ pool = [u \in Users |-> PoolRow(0, NULL, NULL)]
    /\ \E st1, st2 \in ReminderRowStates :
       \E week_start \in {get_week_start(ReminderTime), get_week_start(ReminderTime) - 7} :
          matches = <<[MatchRow(1, get_week_start(ReminderTime), 1, 2, 1)
                          EXCEPT !.user1_status = st1[1], !.user2_status = st1[2],
                                 !.completed_at = st1[3], !.reminder_count = st1[4]],
                      [MatchRow(2, week_start, 3, 4, 2)
                          EXCEPT !.user1_status = st2[1], !.user2_status = st2[2],
                                 !.completed_at = st2[3], !.reminder_count = st2[4]]>>
    /\ channel \in BOOLEAN
    /\ inflight = [s \in Slots |-> Idle]
    /\ sent = [k \in 1..2 |-> [NoPosts EXCEPT !.remind = matches[k].reminder_count]]
    /\ dms = [u \in Users |-> 0]
    /\ reply = NoReply
    /\ lastRun = NoRun
    /\ ops = 0
    /\ fired = {}

\* the reminder scheduler alone: scans one at a time, each to completion
NextReminders ==
    \/ \E s \in Slots : send_reminders(s, 1)
    \/ \E s \in Slots : ScanStep(s)
    \/ Tick(TRUE, ReminderTime)

SpecReminders == InitReminders /\ [][NextReminders]_vars

\* a Tuesday morning; users 1 and 2 are matched in thread 1 for this week, the
\* match is open, the other users are members or not
InitOpenMatch ==
    /\ now = ReminderTime
    /\ \E f \in [Users -> 1..2] :
          /\ f[1] = 2 /\ f[2] = 2
          /\ \A u, v \in Users \ {1, 2} : u < v => f[u] >= f[v]
          /\ pool = [u \in Users |-> InitRowKinds[f[u]]]
    /\ \E st \in {r \in ReminderRowStates : r[3] = NULL} :
          matches = <<[MatchRow(1, get_week_start(ReminderTime), 1, 2, 1)
                          EXCEPT !.user1_status = st[1], !.user2_status = st[2],
                                 !.completed_at = st[3], !.reminder_count = st[4]]>>
    /\ channel = TRUE
    /\ inflight = [s \in Slots |-> Idle]
    /\ sent = <<[NoPosts EXCEPT !.remind = matches[1].reminder_count]>>
    /\ dms = [u \in Users |-> 0]
    /\ reply = NoReply
    /\ lastRun = NoRun
    /\ ops = 0
    /\ fired = {}

\* the reminder scheduler and the reaction listener interleaved at their
\* awaits; the reactions are the confirms and declines of the two
\* participants, they arrive one after another, and the half day ends
\* between handlers
NextScanRace ==
    \/ \E s \in Slots : send_reminders(s, 2)
    \/ \E s \in Slots : ScanStep(s)
    \/ \E s \in Slots, u \in {1, 2}, e \in {"white_check_mark", "x"} :
           /\ \A t \in Slots : inflight[t].kind # "react"
           /\ on_raw_reaction_add(s, 2, u, e, 1)
    \/ \E s \in Slots : ReactStep(s)
    \/ Tick(TRUE, ReminderTime)

SpecScanRace == InitOpenMatch /\ [][NextScanRace]_vars

\* the two loops from the Saturday before a pairing Sunday to the Tuesday of
\* the reminders: members or not, no match yet
InitSchedule == InitStore(<<InitRowKinds[1], InitRowKinds[2]>>)

\* the hourly pairing loop and the 12-hour reminder loop, with the admin
\* command run once the new week has begun; nobody reacts
NextSchedule ==
    \/ \E s \in Slots : weekly_matching(s, 1)
    \/ \E s \in Slots : now > WeekEnd /\ run_matching(s, 1)
    \/ \E s \in Slots : RunStep(s)
    \/ \E s \in Slots : send_reminders(s, 1)
    \/ \E s \in Slots : ScanStep(s)
    \/ Tick(TRUE, ReminderTime)

SpecSchedule == InitSchedule /\ [][NextSchedule]_vars


(* ------------------------------- claims -------------------------------- *)

RunProcs == {s \in Slots : inflight[s].kind = "run"}

ReactProcs == {s \in Slots : inflight[s].kind = "react"}

UsersOf(row) == {row.user1_id, row.user2_id}

\* the rows a pairing run has inserted so far (handlers run one at a time)
NewRows(p) == {k \in MatchIds : k > Len(p.matches0)}

\* what C1 promises of a finished run that saw n >= 2 members
RunOutcome(p) ==
    /\ Cardinality(NewRows(p)) = p.n \div 2
    /\ \A k \in NewRows(p) : matches[k].week_start = p.week_start
    /\ IF p.n % 2 = 1
       THEN /\ p.sit_out_user \in Users
            /\ pool[p.sit_out_user].present
            /\ pool[p.sit_out_user].sat_out_at = now
            /\ \A u \in Users \ {p.sit_out_user} : pool[u] = p.pool0[u]
            /\ \A k \in NewRows(p) : p.sit_out_user \notin UsersOf(matches[k])
       ELSE pool = p.pool0

SatOutWithinWindow(u) ==
    /\ pool[u].present
    /\ pool[u].sat_out_at # NULL
    /\ now - pool[u].sat_out_at < SitOutWindowWeeks * HalfDaysPerWeek

\* C2 as claimed: a member who sat out within the last 4 weeks is never chosen
\* to sit out while any other eligible member is available.
C2_Original ==
    \A s \in RunProcs :
        inflight[s].pc = "mark" =>
            ~(/\ SatOutWithinWindow(inflight[s].sit_out_user)
              /\ inflight[s].available # {})

\* C2 as amended: such a member is never chosen to sit out while an eligible
\* member who has not sat out within the last 4 weeks is available.
C2_FairSitOut ==
    \A s \in RunProcs :
        inflight[s].pc = "mark" =>
            ~(/\ SatOutWithinWindow(inflight[s].sit_out_user)
              /\ \E u \in inflight[s].available : ~SatOutWithinWindow(u))

C2_Witness ==
    \E s \in RunProcs :
        /\ inflight[s].pc = "mark"
        /\ ~SatOutWithinWindow(inflight[s].sit_out_user)
        /\ \E u \in inflight[s].available : SatOutWithinWindow(u)
        /\ \E u \in inflight[s].available : ~SatOutWithinWindow(u)

\* C3: within one RunWeeklyPairing call no user appears in more than one of
\* the pairs it creates.
C3_PairsDisjoint ==
    \A s \in RunProcs :
        \A k1, k2 \in NewRows(inflight[s]) :
            k1 # k2 => UsersOf(matches[k1]) \cap UsersOf(matches[k2]) = {}

C3_Witness ==
    \E s \in RunProcs :
        /\ inflight[s].pc = "done"
        /\ Cardinality(NewRows(inflight[s])) >= 2

\* C4: under any interleaving of two RunWeeklyPairing invocations no user ends
\* up in more than one Match row of the week key.
C4_ReentrantRuns ==
    \A k1, k2 \in MatchIds :
        (k1 # k2 /\ matches[k1].week_start = matches[k2].week_start)
            => UsersOf(matches[k1]) \cap UsersOf(matches[k2]) = {}

\* C5: a run that follows a run of the same week key which persisted every
\* pair, the pool unchanged in between, creates no match and leaves the pool
\* and the match table as they were.
C5_RerunIdempotent ==
    \A s \in RunProcs :
        inflight[s].rerun =>
            /\ inflight[s].matches_created = 0
            /\ matches = inflight[s].matches0
            /\ pool = inflight[s].pool0

C5_Witness ==
    \E s \in RunProcs :
        /\ inflight[s].pc = "done"
        /\ inflight[s].rerun
        /\ inflight[s].n = 1
        /\ Len(matches) >= 1

\* C6: a run never pairs a member who had a Match row of the week key (either
\* side, any status, completed or not) when the run read the store.
C6_NoRepairing ==
    \A s \in RunProcs :
        \A k \in NewRows(inflight[s]) :
            \A j \in 1..Len(inflight[s].matches0) :
                matches[j].week_start = inflight[s].week_start
                    => UsersOf(matches[k]) \cap UsersOf(matches[j]) = {}

C6_Witness ==
    \E s \in RunProcs :
        /\ inflight[s].pc = "done"
        /\ NewRows(inflight[s]) # {}
        /\ \E j \in 1..Len(inflight[s].matches0) :
              /\ matches[j].week_start = inflight[s].week_start
              /\ matches[j].completed_at # NULL
              /\ "declined" \in {matches[j].user1_status, matches[j].user2_status}

\* the status column of a user in a row
StatusOf(row, user_id) ==
    IF user_id = row.user1_id THEN row.user1_status ELSE row.user2_status

PartnerIn(row, user_id) ==
    IF user_id = row.user1_id THEN row.user2_id ELSE row.user1_id

\* C7: OnConfirm by a user whose status is already confirmed leaves the whole
\* Match record as it was, also when the first confirm completed the match.
C7_ConfirmTwice ==
    \A s \in ReactProcs :
        (/\ inflight[s].pc = "done"
         /\ inflight[s].emoji = "white_check_mark"
         /\ StatusOf(inflight[s].match, inflight[s].user_id) = "confirmed")
            => matches[inflight[s].match.id] = inflight[s].match

\* C8: after OnDecline the match has completedAt set and the decliner's status
\* is declined, whatever the partner's status was.
C8_DeclineCompletes ==
    \A s \in ReactProcs :
        (/\ inflight[s].emoji = "x"
         /\ inflight[s].pc \notin {"decline_update", "decline_complete"})
            => /\ matches[inflight[s].match.id].completed_at # NULL
               /\ StatusOf(matches[inflight[s].match.id], inflight[s].user_id) = "declined"

C8_Witness ==
    \E s \in ReactProcs :
        /\ inflight[s].emoji = "x"
        /\ inflight[s].pc = "done"
        /\ StatusOf(inflight[s].match,
                    PartnerIn(inflight[s].match, inflight[s].user_id)) = "confirmed"

\* C9: a confirm or decline reaction on a match whose completedAt is set changes
\* neither status nor completedAt, emits no notice and triggers no rematch.
C9_CompletionTerminal ==
    \A s \in ReactProcs :
        inflight[s].match.completed_at # NULL =>
            /\ matches[inflight[s].match.id] = inflight[s].match
            /\ inflight[s].notices = 0
            /\ inflight[s].rematch_for = {}

\* members a rematch for user a may pick: eligible this week, not a, and in no
\* row of this week that was in the table when the decline arrived
FreeCandidates(p, a) ==
    {c \in get_available_pool_members(get_week_start(now)) \ {a} :
        \A j \in 1..p.m0 :
            matches[j].week_start = get_week_start(now) => c \notin UsersOf(matches[j])}

C11_RematchPartnerFree ==
    \A s \in ReactProcs :
        inflight[s].created # 0 =>
            LET row == matches[inflight[s].created]
            IN  /\ row.user1_id = inflight[s].partner_id
                /\ row.user2_id # row.user1_id
                /\ \A j \in 1..(row.id - 1) :
                       matches[j].week_start = row.week_start
                           => row.user2_id \notin UsersOf(matches[j])

\* C12: every Match a rematch creates carries the week key of the declined
\* match that triggered it, also when the decline arrives after the week has
\* rolled over.
C12_RematchSameWeek ==
    \A s \in ReactProcs :
        inflight[s].created # 0 =>
            matches[inflight[s].created].week_start = inflight[s].match.week_start

ScanProcs == {s \in Slots : inflight[s].kind = "scan"}

C14_NoReminderAfterCompletion ==
    [][\A k \in MatchIds :
          matches[k].completed_at # NULL =>
              /\ matches'[k].reminder_count = matches[k].reminder_count
              /\ sent'[matches[k].thread_id].remind = sent[matches[k].thread_id].remind]_vars

\* what the spec asks of a match that is due a reminder
NeedsReminder(row, weekKey, cap) ==
    /\ row.week_start = weekKey
    /\ row.completed_at = NULL
    /\ row.reminder_count < cap
    /\ "pending" \in {row.user1_status, row.user2_status}

\* C15: ListNeedingReminder(community, weekKey, cap) returns exactly the
\* matches of the week key whose completedAt is unset, whose reminderCount is
\* below the cap and which have a pending side; a match with reminderCount = 2
\* and a pending side is left out.
C15_ListNeedingReminder ==
    \A s \in ScanProcs :
        inflight[s].pc # "select" =>
            LET p == inflight[s]
            IN  /\ \A i \in 1..Len(p.selected) :
                       /\ p.selected[i].id \in 1..Len(p.matches0)
                       /\ p.selected[i] = p.matches0[p.selected[i].id]
                       /\ NeedsReminder(p.selected[i], p.week_start, max_reminders)
                /\ \A i, j \in 1..Len(p.selected) :
                       i # j => p.selected[i].id # p.selected[j].id
                /\ \A k \in 1..Len(p.matches0) :
                       NeedsReminder(p.matches0[k], p.week_start, max_reminders)
                           => \E i \in 1..Len(p.selected) : p.selected[i].id = k

C15_Witness ==
    \E s \in ScanProcs :
        /\ inflight[s].pc = "send"
        /\ Len(inflight[s].selected) = 1
        /\ \E k \in 1..Len(inflight[s].matches0) :
              /\ inflight[s].matches0[k].week_start = inflight[s].week_start
              /\ inflight[s].matches0[k].completed_at = NULL
              /\ inflight[s].matches0[k].user1_status = "pending"
              /\ inflight[s].matches0[k].reminder_count = max_reminders
              /\ inflight[s].selected[1].id # k

\* the reactions C16 is about: made by the engine's own identity, with a marker
\* that is neither confirm nor decline, in a thread that maps to no Match, or
\* by someone who is not one of the two participants
MustIgnore(p) ==
    \/ p.user_id = BotId
    \/ p.emoji \notin {"white_check_mark", "x"}
    \/ \A k \in 1..p.m0 : matches[k].thread_id # p.channel_id
    \/ \E k \in 1..p.m0 :
          /\ matches[k].thread_id = p.channel_id
          /\ p.user_id \notin UsersOf(matches[k])

\* C16: a reaction by a non-participant, in a thread without Match, with
\* another marker, or by the engine itself starts no handler and leaves the
\* pool and the match table as they were.
C16_IgnoredReactions ==
    \A s \in Slots :
        (/\ inflight[s].kind \in {"react", "ignored"}
         /\ MustIgnore([user_id |-> inflight[s].user_id, emoji |-> inflight[s].emoji,
                        channel_id |-> inflight[s].channel_id,
                        m0 |-> IF inflight[s].kind = "react" THEN inflight[s].m0
                               ELSE Len(inflight[s].matches0)]))
            => /\ inflight[s].kind = "ignored"
               /\ pool = inflight[s].pool0
               /\ matches = inflight[s].matches0

C16_Witness ==
    \E s \in Slots :
        /\ inflight[s].kind = "ignored"
        /\ inflight[s].emoji = "x"
        /\ inflight[s].user_id \in Users
        /\ inflight[s].match.id # NULL
        /\ inflight[s].match.completed_at = NULL
        /\ inflight[s].user_id \notin UsersOf(inflight[s].match)
        /\ pool[inflight[s].user_id].present

\* C17: a pair whose collaboration space or instruction post fails gets no
\* Match record in that run, is not tried again in the run, and both members
\* stay without a Match row of the week, so a later run can pair them.
C17_FailedPairUnmatched ==
    \A s \in RunProcs :
        LET p == inflight[s]
        IN  /\ p.failures = Cardinality(p.failed)
            /\ Cardinality(NewRows(p)) = p.matches_created
            /\ \A k \in p.failed :
                   \A j \in MatchIds :
                       matches[j].week_start = p.week_start
                           => UsersOf(matches[j]) \cap {p.pairs[k][1], p.pairs[k][2]} = {}

C17_Witness ==
    \E s \in RunProcs :
        /\ inflight[s].pc = "done"
        /\ ~inflight[s].raised
        /\ inflight[s].failed # {}
        /\ inflight[s].matches_created >= 1

\* the writes of a handler are in the store: the status of the reacting user,
\* and, for a decline or a confirm that made both sides confirmed, the
\* completion
Committed(p) ==
    LET row == matches[p.match.id]
    IN  IF p.emoji = "x"
        THEN StatusOf(row, p.user_id) = "declined" /\ row.completed_at # NULL
        ELSE /\ StatusOf(row, p.user_id) = "confirmed"
             /\ (/\ p.pc \in {"confirm_notice", "done"}
                 /\ row.user1_status = "confirmed"
                 /\ row.user2_status = "confirmed") => row.completed_at # NULL

\* C18: OnConfirm and OnDecline have written status and completion when the
\* notice is posted, a failed notice leaves those writes in place, and after
\* a failed decline notice the rematch for the partner is still attempted.
C18_CommitBeforeNotice ==
    \A s \in ReactProcs :
        LET p == inflight[s]
        IN  /\ p.pc \in {"confirm_notice", "decline_notice"} => Committed(p)
            /\ p.notices > 0 => Committed(p)
            /\ (p.pc = "done" /\ p.notices = 0) =>
                   /\ Committed(p)
                   /\ p.emoji = "x" => p.rematch_for = {PartnerIn(p.match, p.user_id)}

C18_Witness ==
    \E s \in ReactProcs :
        /\ inflight[s].pc = "done"
        /\ inflight[s].emoji = "x"
        /\ inflight[s].notices = 0
        /\ inflight[s].created # 0

\* C19: in a pairing run and in a reminder scan a failure, of the adapter or
\* of the store, while one pair or one match is processed stays with that
\* unit: every other pair of the run is attempted and every other selected
\* match of the scan is processed.
C19_FailuresContained ==
    /\ \A s \in RunProcs :
           (/\ inflight[s].pc = "done"
            /\ inflight[s].pairs # <<>>
            /\ ~inflight[s].no_channel)
               => inflight[s].matches_created + inflight[s].failures = Len(inflight[s].pairs)
    /\ \A s \in ScanProcs :
           inflight[s].pc = "done"
               => inflight[s].posted \cup inflight[s].skipped = 1..Len(inflight[s].selected)

\* the selected matches a scan is done with
Processed(p) == {k \in 1..Len(p.selected) : k < p.i}

\* C20: for each match a reminder scan selected, reminderCount grows by
\* exactly 1 if the reminder was posted and is unchanged if the collaboration
\* space is absent or cannot be located or the post fails, and the scan goes
\* on with the remaining matches.
C20_IncrementIffPosted ==
    \A s \in ScanProcs :
        LET p == inflight[s]
        IN  /\ \A k \in Processed(p) :
                   LET id == p.selected[k].id
                   IN  /\ k \in p.posted \cup p.skipped
                       /\ k \in p.posted =>
                              /\ matches[id].reminder_count = p.matches0[id].reminder_count + 1
                              /\ sent[p.selected[k].thread_id].remind >= 1
                       /\ k \in p.skipped =>
                              /\ k \notin p.posted
                              /\ matches[id].reminder_count = p.matches0[id].reminder_count
            /\ p.pc = "done" => Processed(p) = 1..Len(p.selected)

C20_Witness ==
    \E s \in ScanProcs :
        /\ inflight[s].pc = "done"
        /\ Len(inflight[s].selected) = 2
        /\ inflight[s].skipped = {1}
        /\ inflight[s].posted = {2}

\* C21: a reminder mentions exactly the participants whose status is pending
\* when it is posted; a participant who has confirmed is never mentioned.
C21_MentionsPending ==
    \A s \in ScanProcs :
        inflight[s].posted # {} => inflight[s].mentions = inflight[s].pending_then

\* the members a pairing run or a rematch has put into new rows: both users
\* of the rows of a run, the new partner of a rematch
Chosen(s) ==
    IF inflight[s].kind = "run"
    THEN UNION {UsersOf(matches[k]) : k \in NewRows(inflight[s])}
    ELSE IF inflight[s].kind = "react" /\ inflight[s].created # 0
         THEN {matches[inflight[s].created].user2_id}
         ELSE {}

\* the list ListEligible has just returned to the handler in slot s
JustListed(s) ==
    \/ At(s, "run", "filter")
    \/ At(s, "react", "rematch_partners")

\* members whose skipUntil is unset or, as a date, not after the week key
EligibleUpTo(weekKey) ==
    {u \in Users : /\ pool[u].present
                   /\ \/ pool[u].skip_until = NULL
                      \/ DateOf(pool[u].skip_until) <= weekKey}

\* members whose skipUntil is unset or, as a date, before the week key
EligibleBefore(weekKey) ==
    {u \in Users : /\ pool[u].present
                   /\ \/ pool[u].skip_until = NULL
                      \/ DateOf(pool[u].skip_until) < weekKey}

\* C22 as claimed: ListEligible(community, weekKey) returns exactly the pool
\* members whose skipUntil is unset or <= weekKey, and RunWeeklyPairing and
\* AttemptRematch choose partners only from that set.
C22_Original ==
    \A s \in Slots :
        /\ JustListed(s) => inflight[s].available = EligibleUpTo(inflight[s].week_start)
        /\ inflight[s].kind \in {"run", "react"} =>
               Chosen(s) \subseteq EligibleUpTo(inflight[s].week_start)

\* C22 as amended: ListEligible returns exactly the pool members whose
\* skipUntil is unset or falls on a day before the week key, and
\* RunWeeklyPairing and AttemptRematch choose partners only from that set.
C22_ListEligible ==
    \A s \in Slots :
        /\ JustListed(s) => inflight[s].available = EligibleBefore(inflight[s].week_start)
        /\ inflight[s].kind \in {"run", "react"} =>
               Chosen(s) \subseteq EligibleBefore(inflight[s].week_start)

C22_Witness ==
    \E s \in RunProcs :
        /\ inflight[s].pc = "done"
        /\ NewRows(inflight[s]) # {}
        /\ \E u \in Chosen(s) :
              /\ pool[u].skip_until # NULL
              /\ DateOf(pool[u].skip_until) < inflight[s].week_start
        /\ \E u \in Users :
              /\ pool[u].present
              /\ pool[u].skip_until # NULL
              /\ DateOf(pool[u].skip_until) = inflight[s].week_start

\* C23: a pool member whose skipUntil is set and >= the current week key,
\* equality included, is never placed in a pair by RunWeeklyPairing and never
\* chosen as the new partner by AttemptRematch.
C23_SkippersExcluded ==
    \A s \in Slots :
        inflight[s].kind \in {"run", "react"} =>
            \A u \in Chosen(s) :
                ~(/\ pool[u].present
                  /\ pool[u].skip_until # NULL
                  /\ DateOf(pool[u].skip_until) >= inflight[s].week_start)

C23_Witness ==
    \E s \in ReactProcs :
        /\ inflight[s].pc = "done"
        /\ inflight[s].created # 0
        /\ \E u \in Users \ Chosen(s) :
              /\ pool[u].present
              /\ pool[u].skip_until # NULL
              /\ DateOf(pool[u].skip_until) = inflight[s].week_start
              /\ u \notin UsersOf(inflight[s].match)

\* C24: every Match record, made by the weekly pairing or by a rematch, has
\* userA # userB.
C24_DistinctUsers ==
    \A k \in MatchIds : matches[k].user1_id # matches[k].user2_id

C24_Witness ==
    /\ \E s \in ReactProcs : inflight[s].pc = "done" /\ inflight[s].created # 0
    /\ \E k \in MatchIds : k > 1 /\ \A s \in ReactProcs : inflight[s].created # k

\* C25: if fewer than 2 eligible, not-yet-matched members remain,
\* RunWeeklyPairing returns 0 without creating any Match, without marking any
\* sit-out and without calling the collaboration-space adapter (no channel
\* lookup, no thread, no post).
C25_TooFewNoEffect ==
    \A s \in RunProcs :
        inflight[s].n < 2 =>
            /\ inflight[s].pc \in {"filter", "done"}
            /\ inflight[s].result = 0
            /\ inflight[s].matches_created = 0
            /\ matches = inflight[s].matches0
            /\ pool = inflight[s].pool0
            /\ inflight[s].sit_out_user = NULL
            /\ inflight[s].pairs = <<>>
            /\ ~inflight[s].no_channel
            /\ inflight[s].failures = 0
            /\ Len(sent) = Len(inflight[s].matches0)

C25_Witness ==
    \E s \in RunProcs :
        /\ inflight[s].pc = "done"
        /\ inflight[s].n = 1
        /\ Cardinality(inflight[s].already_matched) = 2
        /\ ~inflight[s].rerun

\* the rematch in slot s has found no candidate (lines 386-396)
NoCandidate(s) ==
    /\ inflight[s].kind = "react"
    /\ \/ inflight[s].pc = "rematch_dm"
       \/ inflight[s].dm_tried > 0

\* C26: when AttemptRematch finds no candidate, it creates no Match, changes
\* no persisted state, sends one direct notification to the user, and
\* terminates normally even if that notification fails.
C26_NoCandidate ==
    \A s \in Slots :
        NoCandidate(s) =>
            /\ inflight[s].created = 0
            /\ matches = inflight[s].matches1
            /\ pool = inflight[s].pool1
            /\ Len(sent) = Len(inflight[s].matches1)
            /\ inflight[s].pc \in {"rematch_dm", "done"}
            /\ inflight[s].pc = "rematch_dm" => inflight[s].dm_tried = 0
            /\ inflight[s].pc = "done" =>
                   /\ inflight[s].dm_tried = 1
                   /\ inflight[s].dm_sent <= 1
                   /\ dms[inflight[s].partner_id] >= inflight[s].dm_sent

C26_Witness ==
    \E s \in ReactProcs :
        /\ inflight[s].pc = "done"
        /\ inflight[s].dm_tried = 1
        /\ inflight[s].dm_sent = 0
        /\ inflight[s].available # {}

\* the step is the slash command `command` of some user
CommandStep(command) ==
    /\ ops' = ops + 1
    /\ inflight' = inflight
    /\ reply'.command = command

\* C27: Leave on a user with no PoolMembership returns false and leaves the
\* Pool Store unchanged; Join on a user who already has a PoolMembership
\* returns false and leaves the record (joinedAt, skipUntil, lastSatOutAt)
\* unchanged; the user is opted in exactly when the record exists: after
\* Leave there is no record, after Join there is one, and the reply tells
\* whether the command changed that.
C27_LeaveJoinIdempotent ==
    [][/\ CommandStep("leave") =>
              /\ reply'.result = pool[reply'.user_id].present
              /\ ~pool'[reply'.user_id].present
              /\ ~reply'.result => pool' = pool
              /\ \A v \in Users \ {reply'.user_id} : pool'[v] = pool[v]
       /\ CommandStep("join") =>
              /\ reply'.result = ~pool[reply'.user_id].present
              /\ pool'[reply'.user_id].present
              /\ ~reply'.result => pool' = pool
              /\ \A v \in Users \ {reply'.user_id} : pool'[v] = pool[v]]_vars

C27_Witness ==
    /\ ops = 2
    /\ reply.command = "join"
    /\ ~reply.result
    /\ pool[reply.user_id].skip_until # NULL
    /\ \E v \in Users : ~pool[v].present

Statuses == {"pending", "confirmed", "declined"}

\* C28: per-side status only ever moves out of pending: once a participant's
\* status is confirmed or declined it never changes again, and it is always
\* one of pending, confirmed, declined.
C28_StatusFinal ==
    [][\A k \in MatchIds :
           /\ matches[k].user1_status \in Statuses
           /\ matches[k].user2_status \in Statuses
           /\ matches[k].user1_status # "pending" =>
                  matches'[k].user1_status = matches[k].user1_status
           /\ matches[k].user2_status # "pending" =>
                  matches'[k].user2_status = matches[k].user2_status]_vars

\* C29: whenever no reaction handler is mid-execution, a Match has
\* completedAt set if and only if both sides are confirmed or at least one
\* side is declined.
C29_CompletedIff ==
    AllIdle =>
        \A k \in MatchIds :
            matches[k].completed_at # NULL <=>
                \/ /\ matches[k].user1_status = "confirmed"
                   /\ matches[k].user2_status = "confirmed"
                \/ "declined" \in {matches[k].user1_status, matches[k].user2_status}

\* the listeners that have made their status write
Written == {s \in ReactProcs : inflight[s].pc # "confirm_update"}

\* C30: under every interleaving of OnConfirm by userA and OnConfirm by
\* userB on the same pending match, neither status write is lost and the
\* match ends with both sides confirmed and completedAt set.
C30_ConfirmRace ==
    /\ \A s \in Written :
           StatusOf(matches[1], inflight[s].user_id) = "confirmed"
    /\ (AllIdle /\ ops = 2) =>
           /\ matches[1].user1_status = "confirmed"
           /\ matches[1].user2_status = "confirmed"
           /\ matches[1].completed_at # NULL

C30_Witness ==
    /\ AllIdle
    /\ ops = 2
    /\ matches[1].completed_at # NULL
    /\ sent[1].complete = 2

\* C31: the completion notice ("both confirmed") is emitted at most once per
\* match, under repeated confirm reactions and under any interleaving of the
\* two participants' confirm handlers.
C31_NoticeOnce ==
    \A k \in 1..Len(sent) : sent[k].complete <= 1

\* the matches of week key w that are not completed and have u on a side
OpenMatchesOf(u, w) ==
    {k \in MatchIds : /\ matches[k].week_start = w
                      /\ matches[k].completed_at = NULL
                      /\ u \in UsersOf(matches[k])}

\* C32: in every reachable state, each user has at most one non-completed
\* Match per community and week key, including after rematches, repeated
\* decline reactions on the same match, and concurrent rematch attempts.
C32_OneOpenMatch ==
    \A u \in Users : \A k \in MatchIds :
        Cardinality(OpenMatchesOf(u, matches[k].week_start)) <= 1

\* the users who have declined the match the listener in slot s reacts to:
\* the one whose cross it handles and any side the row already showed as
\* declined when the listener read it
DeclinersOf(s) ==
    {inflight[s].user_id} \cup
    {u \in UsersOf(inflight[s].match) : StatusOf(inflight[s].match, u) = "declined"}

\* C33: a user who declined a match never becomes a participant of any Match
\* created afterwards as a rematch spawned from that declined match, neither
\* as the rematched user nor as the chosen new partner, including when the
\* partner later reacts on the same match or the decline arrives after the
\* week key has changed.
C33_DeclinerNotRematched ==
    \A s \in ReactProcs :
        inflight[s].created # 0 =>
            UsersOf(matches[inflight[s].created]) \cap DeclinersOf(s) = {}

\* the users of the rows the handler in slot s has created
Created(s) ==
    IF inflight[s].kind = "run"
    THEN UNION {UsersOf(matches[k]) : k \in NewRows(inflight[s])}
    ELSE IF inflight[s].kind = "react" /\ inflight[s].created # 0
         THEN UsersOf(matches[inflight[s].created])
         ELSE {}

\* C34: every participant of every Match was, when the match was created, an
\* opted-in pool member of that community who was not skipping the week; in
\* particular AttemptRematch creates no match for a partner who has left the
\* pool or is skipping.  (No command runs while a handler is in flight, so
\* the pool rows of a handler's users are those of the time of creation.)
C34_ParticipantsEligible ==
    \A s \in Slots :
        inflight[s].kind \in {"run", "react"} =>
            Created(s) \subseteq EligibleBefore(inflight[s].week_start)

\* the row is unconfirmed and below the reminder cap
Unconfirmed(row) ==
    /\ row.completed_at = NULL
    /\ row.reminder_count < max_reminders
    /\ "pending" \in {row.user1_status, row.user2_status}

\* C35: a match created by the scheduled weekly trigger (Sunday 10:00 UTC)
\* that stays unconfirmed is selected by the scheduled reminder scans that
\* follow it (Tuesday/Thursday): the week key the scan queries equals the week
\* key stored on that match.  The rows with the week key of the pairing
\* Sunday are those of the scheduled trigger.
C35_ScheduledMatchSelected ==
    \A s \in ScanProcs :
        inflight[s].pc # "select" =>
            \A k \in 1..Len(inflight[s].matches0) :
                LET row == inflight[s].matches0[k]
                IN  (row.week_start = get_week_start(WeekEnd) /\ Unconfirmed(row)) =>
                        /\ inflight[s].week_start = row.week_start
                        /\ \E i \in 1..Len(inflight[s].selected) :
                               inflight[s].selected[i].id = k

C37_NoMatchNoPoolChange ==
    \A s \in RunProcs :
        (inflight[s].pc = "done" /\ inflight[s].matches_created = 0) =>
            pool = inflight[s].pool0

\* C38: the scheduled reminder trigger performs at most two reminder scans
\* per calendar week, so a match pending all week receives its scheduled
\* reminders on two distinct days rather than twice on the same day: a thread
\* that gets a reminder did not get its previous one on the same day.
C38_RemindersOnDistinctDays ==
    [][\A k \in 1..Len(sent) :
           sent'[k].remind > sent[k].remind => sent[k].reminded_on # DateOf(now)]_vars

====
